---- MODULE Spec2Model ----
(***************************************************************************)
(* Model of ExchangeCompass (GJU edition): the enrichment pipeline of      *)
(* backend/ai_processor.py (process_data_pipeline, insert_records) and the *)
(* read / moderation API of backend/app.py (submit_review,                 *)
(* get_university_details, update_review_status) over one table,           *)
(* exchange_reviews, and the in-process university_details_cache.          *)
(***************************************************************************)
EXTENDS Integers, Sequences, FiniteSets, TLC

(* ------------------------------ bounds --------------------------------- *)
\* most rows the table holds in the model
MaxRows == 2
\* concurrent get_university_details requests
NumReaders == 1

(* --------------------------- value domains ----------------------------- *)
\* pandas' NaN (empty CSV cell, or a column the row's source does not have)
NaN == "<nan>"
\* Python None / SQL NULL
Null == "<null>"
\* a column the records of a source do not have
Missing == "<missing>"
\* an optional value is a set of at most one element: the absent one
None == {}
\* the history value "no status change is being followed"
NoChange == [uni |-> Null, phase |-> "none", reader |-> 0]
\* a request slot whose last response has been delivered
NoResp == [code |-> 0, body |-> None]
\* no insert_records / __main__ result is waiting to be read
NoOutcome ==
    [kind |-> "none", inserted |-> 0, updated |-> 0, returned |-> None,
     revived |-> {}]

Unis == {"Alpha U", "University of Technology"}
Readers == 1..NumReaders

(* ------------------------------ state ---------------------------------- *)
VARIABLES
    store,      \* exchange_reviews: sequence of rows, id = position
    cache,      \* university_details_cache: uni_name -> {aggregate} | None
    rpc,        \* get_university_details request r: position in the handler
    runi,       \* ... its uni_name
    rrec,       \* ... the record it fetched and has not cached yet
    rresp,      \* ... its last response [code, body]
    upc,        \* update_review_status: position in the handler
    uid,        \* ... review_id
    uold,       \* ... history: the status the review had before the UPDATE
    uuni,       \* ... affected_uni_name once selected
    uresp,      \* ... its last response code
    sresp,      \* submit_review: last response code
    sreq,       \* ... the request body it answered
    lresp,      \* get_unis_live: last response [code, body]
    ppc,        \* ai_processor __main__: position
    df,         \* process_data_pipeline: the merged DataFrame
    pidx,       \* ... index of the row the loop is at
    processed,  \* ... processed_records
    calls,      \* ... scorer calls made in this run
    lastCall,   \* ... arguments of the last scorer call
    sleeps,     \* ... time.sleep(13) calls made in this run
    outcome,    \* how the last run ended, with insert_count and update_count
                \* as insert_records left them, the value it returned to
                \* __main__, and (history) the rows it approved again
    rpre,       \* history: does request r's fetched record predate a status
                \* change ("no", "pending": of the request in flight, "yes":
                \* of a request that returned 200)
    cpre,       \* history: the same for the cache entry of a uni
    jc,         \* history: the read that follows a successful status change
    rsrc,       \* history: ids of the rows request r's fetched record was
                \* computed from
    csrc        \* history: the same for the cache entry of a uni

vars == <<store, cache, rpc, runi, rrec, rresp, upc, uid, uold, uuni, uresp, sresp, sreq,
          lresp, ppc, df, pidx, processed, calls, lastCall, sleeps, outcome,
          rpre, cpre, jc, rsrc, csrc>>

httpVars == <<rpc, runi, rrec, rresp, upc, uid, uold, uuni, uresp, sresp, sreq, lresp>>
pipeVars == <<ppc, df, pidx, processed, calls, lastCall, sleeps, outcome>>
histVars == <<rpre, cpre, jc, rsrc, csrc>>

(* ----------------------- the aggregate query --------------------------- *)
RECURSIVE SumOver(_, _)
\* SUM of f[i] over a finite set of row ids
SumOver(ids, f) ==
    IF ids = {} THEN 0
    ELSE LET i == CHOOSE x \in ids : TRUE
         IN f[i] + SumOver(ids \ {i}, f)

\* ROUND(num/den, 2) of a non-negative quotient, in hundredths
Round2(num, den) == (200 * num + den) \div (2 * den)

\* ids of the rows WHERE uni_name = u AND status = 'approved'
ApprovedIds(st, u) ==
    {i \in 1..Len(st) : st[i].uni_name = u /\ st[i].status = "approved"}

\* the scalar subquery: a theme_summary of an approved ai_processed row, LIMIT 1
SummaryChoices(st, u) ==
    LET s == {st[i].theme_summary : i \in
                {j \in 1..Len(st) : /\ st[j].uni_name = u
                                    /\ st[j].theme_summary # Null
                                    /\ st[j].reviewer_type = "ai_processed"
                                    /\ st[j].status = "approved"}}
    IN IF s = {} THEN {Null} ELSE s

\* one output row of the GROUP BY uni_name, city
GroupRow(st, u, c, summary) ==
    LET ids == {i \in ApprovedIds(st, u) : st[i].city = c}
        n   == Cardinality(ids)
        Ac == [i \in ids |-> st[i].academics_score]
        Co == [i \in ids |-> st[i].cost_score]
        So == [i \in ids |-> st[i].social_score]
        Am == [i \in ids |-> st[i].accommodation_score]
        Tot == [i \in ids |-> Ac[i] + Co[i] + So[i] + Am[i]]
    IN [uni_name |-> u, city |-> c,
        avg_academics |-> Round2(SumOver(ids, Ac), n),
        avg_cost |-> Round2(SumOver(ids, Co), n),
        avg_social |-> Round2(SumOver(ids, So), n),
        avg_accommodation |-> Round2(SumOver(ids, Am), n),
        overall_score |-> Round2(SumOver(ids, Tot), 4 * n),
        theme_summary |-> summary]

\* the records cursor.fetchone() can return for the aggregate query: the
\* query has no ORDER BY, so any group can come first
QueryResults(st, u) ==
    {GroupRow(st, u, c, s) :
        c \in {st[i].city : i \in ApprovedIds(st, u)},
        s \in SummaryChoices(st, u)}

(* ------------------------ the exchange_reviews table ------------------- *)
\* INSERT INTO exchange_reviews: the table gives the new row the next id (its
\* position) and its created_at, a logical time that is the number of rows
\* inserted so far; no statement of the program names that column
TableInsert(st, row) == Append(st, row @@ [created_at |-> Len(st) + 1])

(* --------------------------- submit_review ----------------------------- *)
\* keys a submission may carry
SubmissionKeys ==
    {"uni_name", "city", "raw_review_text", "raw_language", "theme_summary",
     "academics_score", "cost_score", "social_score", "accommodation_score"}

\* a submission with placeholder values under the keys it does not carry
Submission(absent, uni, text, ac, co, so, am) ==
    [absent |-> absent, uni_name |-> uni, city |-> Null,
     raw_review_text |-> text, raw_language |-> Null, theme_summary |-> Null,
     academics_score |-> ac, cost_score |-> co, social_score |-> so,
     accommodation_score |-> am]

\* request bodies POSTed to /api/submit_review: a complete one, one
\* without accommodation_score, and an empty one
Submissions ==
    { Submission({"city", "raw_language", "theme_summary"},
                 "Alpha U", "marhaba", 4, 4, 4, 4),
      Submission({"city", "raw_language", "theme_summary", "accommodation_score"},
                 "Alpha U", "good", 4, 4, 4, 0),
      Submission(SubmissionKeys, Null, Null, 0, 0, 0, 0) }

\* the check of the scores left out
required_fields_NamesOnly == {"uni_name", "raw_review_text"}

required_fields ==
    {"uni_name", "raw_review_text", "academics_score", "cost_score",
     "social_score", "accommodation_score"}

\* key in dict: a dict is a record with the set of its absent keys
Has(d, k) == k \notin d.absent

\* dict.get(key, default)
Get(d, k, default) == IF Has(d, k) THEN d[k] ELSE default

\* the row the INSERT of submit_review creates
SubmitRow(d) ==
    [uni_name |-> d.uni_name,
     city |-> Get(d, "city", "Unknown"),
     source_type |-> "user_submitted",
     raw_review_text |-> d.raw_review_text,
     raw_language |-> Get(d, "raw_language", "en"),
     overall_sentiment |-> "Neutral",
     academics_score |-> d.academics_score,
     cost_score |-> d.cost_score,
     social_score |-> d.social_score,
     accommodation_score |-> d.accommodation_score,
     theme_summary |-> Get(d, "theme_summary", "User-provided review."),
     reviewer_type |-> "user_submitted",
     status |-> "pending",
     major |-> Null]

\* ai_processor is not running: it is an occasional offline job, and the
\* model runs it while no request is in flight
PipelineIdle == ppc = "idle" /\ outcome = NoOutcome

\* no request is in flight and every response has been read
HttpQuiet ==
    /\ \A r \in Readers : rpc[r] = "idle" /\ rresp[r] = NoResp
    /\ upc = "idle" /\ uresp = 0
    /\ sresp = 0
    /\ lresp = NoResp

\* submit_review: validation, then one INSERT and commit
SubmitReview ==
    \E d \in Submissions, connOk \in BOOLEAN, dbOk \in BOOLEAN :
        /\ PipelineIdle
        /\ sresp = 0
        /\ lresp = NoResp
        /\ Len(store) < MaxRows
        /\ sreq' = {d}
        /\ IF d.absent = SubmissionKeys \/ \E f \in required_fields : ~Has(d, f)
           THEN /\ sresp' = 400
                /\ UNCHANGED store
           ELSE IF ~connOk
           THEN /\ sresp' = 500
                /\ UNCHANGED store
           ELSE IF ~dbOk
           THEN /\ sresp' = 500            \* execute raised: rollback
                /\ UNCHANGED store
           ELSE /\ store' = TableInsert(store, SubmitRow(d))
                /\ sresp' = 201
        /\ UNCHANGED <<cache, rpc, runi, rrec, rresp, upc, uid, uold, uuni, uresp, lresp>>
        /\ UNCHANGED histVars
        /\ UNCHANGED pipeVars

(* ------------------------ get_university_details ----------------------- *)
\* the history of "the next read after a successful status change"
ReadDone(r, u) ==
    IF jc.uni = u /\ jc.phase = "changed"
    THEN [uni |-> u, phase |-> "read", reader |-> r]
    ELSE jc

\* if uni_name in university_details_cache: return the cached value
ReadLookup(r) ==
    \E u \in Unis :
        /\ PipelineIdle
        /\ rpc[r] = "idle"
        /\ rresp[r] = NoResp
        /\ lresp = NoResp
        /\ runi' = [runi EXCEPT ![r] = u]
        /\ IF cache[u] # None
           THEN /\ rresp' = [rresp EXCEPT ![r] = [code |-> 200, body |-> cache[u]]]
                /\ jc' = ReadDone(r, u)
                /\ UNCHANGED rpc
           ELSE /\ rpc' = [rpc EXCEPT ![r] = "miss"]
                /\ UNCHANGED <<rresp, jc>>
        /\ UNCHANGED <<store, cache, rrec, upc, uid, uold, uuni, uresp, sresp, sreq, lresp,
                       rpre, cpre, rsrc, csrc>>
        /\ UNCHANGED pipeVars

\* get_db_connection, the aggregate query and fetchone
ReadQuery(r) ==
    \E connOk \in BOOLEAN :
        /\ rpc[r] = "miss"
        /\ IF ~connOk
           THEN /\ rresp' = [rresp EXCEPT ![r] = [code |-> 500, body |-> None]]
                /\ rpc' = [rpc EXCEPT ![r] = "idle"]
                /\ jc' = ReadDone(r, runi[r])
                /\ UNCHANGED <<rrec, rpre, rsrc>>
           ELSE IF QueryResults(store, runi[r]) = {}
           THEN /\ rresp' = [rresp EXCEPT ![r] = [code |-> 404, body |-> None]]
                /\ rpc' = [rpc EXCEPT ![r] = "idle"]
                /\ jc' = ReadDone(r, runi[r])
                /\ UNCHANGED <<rrec, rpre, rsrc>>
           ELSE \E rec \in QueryResults(store, runi[r]) :
                /\ rrec' = [rrec EXCEPT ![r] = {rec}]
                /\ rpre' = [rpre EXCEPT ![r] = "no"]
                /\ rsrc' = [rsrc EXCEPT ![r] =
                              {i \in ApprovedIds(store, runi[r]) :
                                  store[i].city = rec.city}]
                /\ rpc' = [rpc EXCEPT ![r] = "fetched"]
                /\ UNCHANGED <<rresp, jc>>
        /\ UNCHANGED <<store, cache, runi, upc, uid, uold, uuni, uresp, sresp, sreq, lresp,
                       cpre, csrc>>
        /\ UNCHANGED pipeVars

\* university_details_cache[uni_name] = university_data; return it
ReadStore(r) ==
    /\ rpc[r] = "fetched"
    /\ cache' = [cache EXCEPT ![runi[r]] = rrec[r]]
    /\ cpre' = [cpre EXCEPT ![runi[r]] = rpre[r]]
    /\ rresp' = [rresp EXCEPT ![r] = [code |-> 200, body |-> rrec[r]]]
    /\ rrec' = [rrec EXCEPT ![r] = None]
    /\ rpre' = [rpre EXCEPT ![r] = "no"]
    /\ csrc' = [csrc EXCEPT ![runi[r]] = rsrc[r]]
    /\ rsrc' = [rsrc EXCEPT ![r] = {}]
    /\ rpc' = [rpc EXCEPT ![r] = "idle"]
    /\ jc' = ReadDone(r, runi[r])
    /\ UNCHANGED <<store, runi, upc, uid, uold, uuni, uresp, sresp, sreq, lresp>>
    /\ UNCHANGED pipeVars

(* ---------------------------- get_unis_live ---------------------------- *)
\* the (uni_name, city) pairs of the rows WHERE status = 'approved'
ApprovedGroups(st) ==
    {<<st[i].uni_name, st[i].city>> :
        i \in {j \in 1..Len(st) : st[j].status = "approved"}}

\* one output row of SELECT ... WHERE status = 'approved' GROUP BY uni_name, city
LiveRow(st, u, c) ==
    LET g == GroupRow(st, u, c, Null)
    IN [uni_name |-> u, city |-> c,
        review_count |-> Cardinality({i \in ApprovedIds(st, u) : st[i].city = c}),
        avg_academics |-> g.avg_academics,
        avg_cost |-> g.avg_cost,
        avg_social |-> g.avg_social,
        avg_accommodation |-> g.avg_accommodation,
        overall_score |-> g.overall_score]

\* cursor.fetchall() of get_unis_live: one row for each group
UnisLive(st) == {LiveRow(st, g[1], g[2]) : g \in ApprovedGroups(st)}

\* get_unis_live: get_db_connection, the grouped query, the JSON list. It is
\* one query that shares nothing but the table with the other handlers, so
\* the model serves it between the other requests
GetUnisLive ==
    \E connOk \in BOOLEAN :
        /\ PipelineIdle
        /\ HttpQuiet
        /\ lresp' = IF connOk THEN [code |-> 200, body |-> UnisLive(store)]
                              ELSE [code |-> 500, body |-> None]
        /\ UNCHANGED <<store, cache, rpc, runi, rrec, rresp, upc, uid, uold, uuni,
                       uresp, sresp, sreq>>
        /\ UNCHANGED histVars
        /\ UNCHANGED pipeVars

(* ------------------------- update_review_status ------------------------ *)
\* the status values a request body carries ("pending" stands for any value
\* other than approved / rejected)
StatusInputs == {"approved", "rejected", "pending"}

\* the rows after UPDATE exchange_reviews SET status = s WHERE id = id
SetStatus(st, id, s) ==
    IF id \in 1..Len(st) THEN [st EXCEPT ![id].status = s] ELSE st

\* API-key check, status check, get_db_connection, UPDATE and commit
UpdCommit ==
    \E id \in 1..MaxRows, s \in StatusInputs, keyOk \in BOOLEAN,
       connOk \in BOOLEAN, dbOk \in BOOLEAN :
        /\ PipelineIdle
        /\ upc = "idle"
        /\ uresp = 0
        /\ lresp = NoResp
        /\ IF ~keyOk
           THEN /\ uresp' = 401
                /\ UNCHANGED <<store, upc, uid, uold, rpre, cpre>>
           ELSE IF s \notin {"approved", "rejected"}
           THEN /\ uresp' = 400
                /\ UNCHANGED <<store, upc, uid, uold, rpre, cpre>>
           ELSE IF ~connOk \/ ~dbOk
           THEN /\ uresp' = 500
                /\ UNCHANGED <<store, upc, uid, uold, rpre, cpre>>
           ELSE IF id \notin 1..Len(store)
           THEN /\ uresp' = 404          \* cursor.rowcount == 0
                /\ UNCHANGED <<store, upc, uid, uold, rpre, cpre>>
           ELSE /\ store' = SetStatus(store, id, s)
                /\ upc' = "committed"
                /\ uid' = id
                /\ uold' = {store[id].status}
                /\ UNCHANGED uresp
                /\ LET u == store[id].uni_name
                       changed == store[id].status # s
                   IN /\ rpre' = [r \in Readers |->
                                    IF /\ changed /\ rpc[r] = "fetched"
                                       /\ runi[r] = u /\ rpre[r] = "no"
                                    THEN "pending" ELSE rpre[r]]
                      /\ cpre' = [cpre EXCEPT ![u] =
                                    IF changed /\ cache[u] # None /\ @ = "no"
                                    THEN "pending" ELSE @]
        /\ UNCHANGED <<cache, rpc, runi, rrec, rresp, uuni, sresp, sreq, lresp, jc,
                       rsrc, csrc>>
        /\ UNCHANGED pipeVars

\* history: the request in flight is over, its "pending" marks become v
Settle(pre, v) == [x \in DOMAIN pre |-> IF pre[x] = "pending" THEN v ELSE pre[x]]

\* SELECT uni_name FROM exchange_reviews WHERE id = review_id
UpdSelect ==
    \E dbOk \in BOOLEAN :
        /\ upc = "committed"
        /\ IF dbOk
           THEN /\ uuni' = store[uid].uni_name
                /\ upc' = "selected"
                /\ UNCHANGED <<uresp, uid, uold, rpre, cpre>>
           ELSE /\ uresp' = 500          \* rollback after the commit: no effect
                /\ upc' = "idle"
                /\ uid' = 1
                /\ uold' = None
                /\ rpre' = Settle(rpre, "no")
                /\ cpre' = Settle(cpre, "no")
                /\ UNCHANGED uuni
        /\ UNCHANGED <<store, cache, rpc, runi, rrec, rresp, sresp, sreq, lresp, jc,
                       rsrc, csrc>>
        /\ UNCHANGED pipeVars

\* the invalidation left out: the entry stays in the cache
Invalidate_Skipped(c, u) == c

\* if affected_uni_name in university_details_cache: del ...[affected_uni_name]
Invalidate(c, u) == [c EXCEPT ![u] = None]

\* the cache invalidation of update_review_status, and its 200 response
UpdInvalidate ==
    /\ upc = "selected"
    /\ cache' = Invalidate(cache, uuni)
    /\ cpre' = [u \in Unis |-> IF cache'[u] = None THEN "no"
                                ELSE Settle(cpre, "yes")[u]]
    /\ rpre' = Settle(rpre, "yes")
    /\ uresp' = 200
    /\ upc' = "idle"
    /\ uid' = 1
    /\ uold' = None
    /\ uuni' = Null
    /\ jc' = [uni |-> uuni, phase |-> "changed", reader |-> 0]
    /\ csrc' = [u \in Unis |-> IF cache'[u] = None THEN {} ELSE csrc[u]]
    /\ UNCHANGED <<store, rpc, runi, rrec, rresp, sresp, sreq, lresp, rsrc>>
    /\ UNCHANGED pipeVars

(* ------------------------- the source adapters ------------------------- *)
\* a row of raw_survey_data.csv: the cells under the university, city and
\* comment headers ("" is an empty cell)
CsvRow(uni, city, text) == [uni_name |-> uni, city |-> city, raw_review_text |-> text]

\* a div.uni-review-card: the text of its h4.uni-name, p.uni-city and
\* p.review-body (Null: the element is absent)
Card(uni, city, body) == [uni_name |-> uni, city |-> city, review_body |-> body]

\* contents of raw_survey_data.csv (<<>>: no rows, or no file)
CsvOne == <<CsvRow("Alpha U", "Amman", "good")>>
CsvTwice ==
    <<CsvRow("Alpha U", "Amman", ""), CsvRow("Alpha U", "Amman", "good"),
      CsvRow("Alpha U", "Amman", "good")>>
CsvNoName ==
    <<CsvRow("", "Amman", "good"), CsvRow("Alpha U", "Amman", "good")>>

\* contents of mock_reviews.html (<<>>: no cards, or no file)
HtmlCards ==
    <<Card("University of Technology", "Berlin", Null),
      Card("Alpha U", "Berlin", ""),
      Card("University of Technology", Null, "ar")>>

\* the raw-data sets a run can find: the two files
DataSets ==
    { [csv |-> <<>>, html |-> <<>>],
      [csv |-> CsvOne, html |-> <<>>],
      [csv |-> CsvTwice, html |-> <<>>],
      [csv |-> CsvNoName, html |-> <<>>],
      [csv |-> CsvOne, html |-> HtmlCards],
      [csv |-> <<>>, html |-> HtmlCards] }

\* pd.read_csv: an empty cell is read as NaN
ReadCell(c) == IF c = "" THEN NaN ELSE c

\* pd.read_csv, rename, to_dict(orient='records')
ReadCsv(file) ==
    [i \in 1..Len(file) |->
        [uni_name |-> ReadCell(file[i].uni_name),
         city |-> ReadCell(file[i].city),
         raw_review_text |-> ReadCell(file[i].raw_review_text),
         source_type |-> Missing]]

\* Python truthiness of a string or None
Truthy(x) == x # Null /\ x # ""

RECURSIVE parse_html_reviews(_)
\* the cards that have a name and a body, each tagged html_scrape
parse_html_reviews(cards) ==
    IF cards = <<>> THEN <<>>
    ELSE LET card == Head(cards)
             rest == parse_html_reviews(Tail(cards))
         IN IF Truthy(card.uni_name) /\ Truthy(card.review_body)
            THEN <<[uni_name |-> card.uni_name, city |-> card.city,
                    raw_review_text |-> card.review_body,
                    source_type |-> "html_scrape"]>> \o rest
            ELSE rest

\* pd.DataFrame(all_raw_data): the columns are the union of the keys, and a
\* row that lacks a column holds NaN there
DataFrame(all_raw_data) ==
    LET hasSource == \E i \in 1..Len(all_raw_data) :
                        all_raw_data[i].source_type # Missing
    IN [i \in 1..Len(all_raw_data) |->
          IF hasSource /\ all_raw_data[i].source_type = Missing
          THEN [all_raw_data[i] EXCEPT !.source_type = NaN]
          ELSE all_raw_data[i]]

(* ----------------------------- the scorer ------------------------------ *)
\* keys of the response_schema
ResultKeys ==
    {"overall_sentiment", "academics_score", "cost_score", "social_score",
     "accommodation_score", "theme_summary"}

\* json.loads(response.text), with placeholders under the keys it lacks
Result(absent, sentiment, ac, co, so, am, summary) ==
    [absent |-> absent, overall_sentiment |-> sentiment,
     academics_score |-> ac, cost_score |-> co, social_score |-> so,
     accommodation_score |-> am, theme_summary |-> summary]

\* what analyze_review_with_gemini can return: None (the call raised), a
\* complete result, one with a score outside 1..5, and one without cost_score
ScorerOutcomes ==
    { None,
      {Result({}, "Positive", 5, 2, 4, 3, "s1")},
      {Result({}, "Negative", 7, 2, 1, 3, "s2")},
      {Result({"cost_score"}, "Positive", 5, 0, 4, 3, "s1")} }

\* the phrases assign_mock_majors looks for, by university name
Phrases ==
    [u \in Unis |-> IF u = "University of Technology"
                    THEN {"University of Technology"} ELSE {}]

\* assign_mock_majors(uni_name); applied to NaN it raises TypeError
assign_mock_majors(uni) ==
    IF "University of Technology" \in Phrases[uni]
    THEN "Computer Science, Electrical Engineering"
    ELSE IF "University of Arts" \in Phrases[uni]
    THEN "Graphic Design, Animation"
    ELSE IF "University of Medicine" \in Phrases[uni]
    THEN "Medicine, Pharmacy"
    ELSE IF "University of Engineering" \in Phrases[uni]
    THEN "Mechanical Engineering, Civil Engineering"
    ELSE "General Studies"

\* the record process_data_pipeline assembles from a row and a result
Record(row, res) ==
    [absent |-> res.absent,
     uni_name |-> row.uni_name,
     city |-> row.city,
     source_type |-> IF row.source_type = Missing THEN "csv_survey"
                     ELSE row.source_type,
     raw_review_text |-> row.raw_review_text,
     overall_sentiment |-> res.overall_sentiment,
     academics_score |-> res.academics_score,
     cost_score |-> res.cost_score,
     social_score |-> res.social_score,
     accommodation_score |-> res.accommodation_score,
     theme_summary |-> res.theme_summary,
     major |-> assign_mock_majors(row.uni_name)]

(* ------------------------ process_data_pipeline ------------------------ *)
NoCall == [text |-> Null, uni |-> Null]

\* the natural keys among the raw reviews that no ai_processed row has yet
\* (keeps the table within MaxRows)
NewKeys(st, raw) ==
    {<<raw[i].uni_name, raw[i].raw_review_text>> : i \in
        {j \in 1..Len(raw) :
            ~\E k \in 1..Len(st) : /\ st[k].uni_name = raw[j].uni_name
                                   /\ st[k].raw_review_text = raw[j].raw_review_text
                                   /\ st[k].reviewer_type = "ai_processed"}}

\* reads both sources and builds the DataFrame; with no data it returns []
PipelineStart ==
    \E ds \in DataSets :
        LET all_raw_data == ReadCsv(ds.csv) \o parse_html_reviews(ds.html)
        IN /\ PipelineIdle
           /\ HttpQuiet
           /\ Len(store) + Cardinality(NewKeys(store, all_raw_data)) <= MaxRows
           /\ calls' = 0
           /\ sleeps' = 0
           /\ lastCall' = NoCall
           /\ processed' = <<>>
           /\ IF all_raw_data = <<>>
              THEN /\ df' = <<>>
                   /\ pidx' = 0
                   /\ ppc' = "idle"
                   /\ outcome' = [NoOutcome EXCEPT !.kind = "skipped"]
              ELSE /\ df' = DataFrame(all_raw_data)
                   /\ pidx' = 1
                   /\ ppc' = "loop"
                   /\ UNCHANGED outcome
           /\ UNCHANGED <<store, cache>>
           /\ UNCHANGED httpVars
           /\ UNCHANGED histVars

\* the check left out: no row is skipped
SkipsRow_Never(row) == FALSE

\* pd.isna(row['raw_review_text'])
SkipsRow(row) == row.raw_review_text \in {NaN, Null}

\* one iteration of the loop over df.iterrows()
PipelineStep ==
    /\ ppc = "loop"
    /\ pidx <= Len(df)
    /\ LET row == df[pidx]
       IN IF SkipsRow(row)
          THEN /\ pidx' = pidx + 1
               /\ UNCHANGED <<ppc, processed, calls, lastCall, sleeps, outcome>>
          ELSE \E res \in ScorerOutcomes :
               /\ calls' = calls + 1
               /\ lastCall' = [text |-> row.raw_review_text, uni |-> row.uni_name]
               /\ IF res = None \/ (\E d \in res : d.absent = ResultKeys)
                  THEN /\ pidx' = pidx + 1
                       /\ UNCHANGED <<ppc, processed, sleeps, outcome>>
                  ELSE IF row.uni_name = NaN
                  THEN \* assign_mock_majors raises: the run ends here
                       /\ ppc' = "idle"
                       /\ outcome' = [NoOutcome EXCEPT !.kind = "crashed"]
                       /\ pidx' = 0
                       /\ processed' = <<>>
                       /\ UNCHANGED sleeps
                  ELSE /\ \E d \in res :
                            processed' = Append(processed, Record(row, d))
                       /\ sleeps' = sleeps + 1
                       /\ pidx' = pidx + 1
                       /\ UNCHANGED <<ppc, outcome>>
    /\ df' = IF ppc' = "idle" THEN <<>> ELSE df
    /\ UNCHANGED <<store, cache>>
    /\ UNCHANGED httpVars
    /\ UNCHANGED histVars

\* the loop is over: __main__ inserts processed_data unless it is empty
PipelineReturn ==
    /\ ppc = "loop"
    /\ pidx > Len(df)
    /\ IF processed = <<>>
       THEN /\ ppc' = "idle"
            /\ outcome' = [NoOutcome EXCEPT !.kind = "skipped"]
       ELSE /\ ppc' = "insert"
            /\ UNCHANGED outcome
    /\ pidx' = 0
    /\ df' = <<>>
    /\ calls' = 0
    /\ sleeps' = 0
    /\ lastCall' = NoCall
    /\ UNCHANGED <<store, cache, processed>>
    /\ UNCHANGED httpVars
    /\ UNCHANGED histVars

(* ---------------------------- insert_records --------------------------- *)
\* texts that hold a character of the Arabic block U+0600..U+06FF
ArabicTexts == {"ar", "marhaba"}

\* raw_language_guess
LanguageGuess(text) == IF text \in ArabicTexts THEN "ar" ELSE "en"

\* the keys insert_records reads with record[...]
ReadKeys ==
    {"uni_name", "city", "raw_review_text", "academics_score", "cost_score",
     "social_score", "accommodation_score", "theme_summary", "major"}

\* record[...] raises KeyError for this record
RaisesKeyError(rec) == rec.absent \cap ReadKeys # {}

\* the lookup by name alone
ExistingIds_ByName(st, rec) ==
    {i \in 1..Len(st) : st[i].uni_name = rec.uni_name}

\* ids of the rows the SELECT by (uni_name, raw_review_text, reviewer_type) finds
ExistingIds(st, rec) ==
    {i \in 1..Len(st) : /\ st[i].uni_name = rec.uni_name
                        /\ st[i].raw_review_text = rec.raw_review_text
                        /\ st[i].reviewer_type = "ai_processed"}

\* the UPDATE without "status = %s": the row keeps its status
UpdatedRow_KeepStatus(row, rec) ==
    [row EXCEPT !.city = rec.city,
                !.source_type = rec.source_type,
                !.raw_language = LanguageGuess(rec.raw_review_text),
                !.academics_score = rec.academics_score,
                !.cost_score = rec.cost_score,
                !.social_score = rec.social_score,
                !.accommodation_score = rec.accommodation_score,
                !.theme_summary = rec.theme_summary,
                !.major = rec.major]

\* the row after the UPDATE ... WHERE id = existing_record[0]
UpdatedRow(row, rec) ==
    [row EXCEPT !.city = rec.city,
                !.source_type = rec.source_type,
                !.raw_language = LanguageGuess(rec.raw_review_text),
                !.academics_score = rec.academics_score,
                !.cost_score = rec.cost_score,
                !.social_score = rec.social_score,
                !.accommodation_score = rec.accommodation_score,
                !.theme_summary = rec.theme_summary,
                !.status = "approved",
                !.major = rec.major]

\* the row the INSERT creates: overall_sentiment is not among the columns
InsertedRow(rec) ==
    [uni_name |-> rec.uni_name,
     city |-> rec.city,
     source_type |-> rec.source_type,
     raw_review_text |-> rec.raw_review_text,
     raw_language |-> LanguageGuess(rec.raw_review_text),
     overall_sentiment |-> Null,
     academics_score |-> rec.academics_score,
     cost_score |-> rec.cost_score,
     social_score |-> rec.social_score,
     accommodation_score |-> rec.accommodation_score,
     theme_summary |-> rec.theme_summary,
     reviewer_type |-> "ai_processed",
     status |-> "approved",
     major |-> rec.major]

\* the lookup left out: every record is inserted
UpsertOne_AlwaysInsert(st, rec) == TableInsert(st, InsertedRow(rec))

\* the table after one record of the batch: update the row found, else insert
UpsertOne(st, rec) ==
    IF ExistingIds(st, rec) # {}
    THEN LET id == CHOOSE i \in ExistingIds(st, rec) : TRUE
         IN [st EXCEPT ![id] = UpdatedRow(st[id], rec)]
    ELSE TableInsert(st, InsertedRow(rec))

RECURSIVE RunBatch(_, _, _, _)
\* the for loop of insert_records from record k on, inside the transaction:
\* failAt is the record at which the database raises (0: at none)
RunBatch(tx, records, k, failAt) ==
    IF k > Len(records) THEN tx
    ELSE IF RaisesKeyError(records[k]) \/ k = failAt
    THEN [tx EXCEPT !.ok = FALSE]
    ELSE RunBatch([ok |-> TRUE,
                   rows |-> UpsertOne(tx.rows, records[k]),
                   inserted |-> IF ExistingIds(tx.rows, records[k]) = {}
                                THEN tx.inserted + 1 ELSE tx.inserted,
                   updated |-> IF ExistingIds(tx.rows, records[k]) # {}
                               THEN tx.updated + 1 ELSE tx.updated],
                  records, k + 1, failAt)

\* the rollback left out: the writes made before the failure stay
AfterBatch_NoRollback(st, tx) == tx.rows

\* the table once insert_records is over: committed, or rolled back
AfterBatch(st, tx) == IF tx.ok THEN tx.rows ELSE st

\* history: ids of the rows that were rejected in st and are approved in st2
Revived(st, st2) ==
    {i \in 1..Len(st) : st[i].status = "rejected" /\ st2[i].status = "approved"}

\* insert_records(processed_data): one transaction over the whole batch. It
\* has no return statement and catches every exception: its caller gets
\* None whether the batch committed, failed or never had a connection
InsertRecords ==
    \E connOk \in BOOLEAN, failAt \in 0..Len(processed) :
        /\ ppc = "insert"
        /\ ppc' = "idle"
        /\ IF ~connOk
           THEN /\ outcome' = [NoOutcome EXCEPT !.kind = "no_connection"]
                /\ UNCHANGED store
           ELSE LET tx == RunBatch([ok |-> TRUE, rows |-> store,
                                    inserted |-> 0, updated |-> 0],
                                   processed, 1, failAt)
                IN /\ store' = AfterBatch(store, tx)
                   /\ outcome' = [kind |-> IF tx.ok THEN "committed" ELSE "error",
                                   inserted |-> tx.inserted,
                                   updated |-> tx.updated,
                                   returned |-> None,
                                   revived |-> Revived(store, AfterBatch(store, tx))]
        /\ processed' = <<>>
        /\ UNCHANGED <<cache, df, pidx, calls, lastCall, sleeps>>
        /\ UNCHANGED histVars
        /\ UNCHANGED httpVars

(* ------------------------- delivery of results ------------------------- *)
\* the client of request slot r has read its response: the slot is free
ReadReceive(r) ==
    /\ rpc[r] = "idle"
    /\ rresp[r] # NoResp
    /\ rresp' = [rresp EXCEPT ![r] = NoResp]
    /\ jc' = IF jc.phase = "read" /\ jc.reader = r THEN NoChange ELSE jc
    /\ UNCHANGED <<store, cache, rpc, runi, rrec, upc, uid, uold, uuni, uresp, sresp, sreq,
                   lresp, rpre, cpre, rsrc, csrc>>
    /\ UNCHANGED pipeVars

\* the admin client has read the response of update_review_status
UpdReceive ==
    /\ upc = "idle"
    /\ uresp # 0
    /\ uresp' = 0
    /\ UNCHANGED <<store, cache, rpc, runi, rrec, rresp, upc, uid, uold, uuni, sresp, sreq,
                   lresp>>
    /\ UNCHANGED pipeVars
    /\ UNCHANGED histVars

\* the submitting client has read the response of submit_review
SubmitReceive ==
    /\ sresp # 0
    /\ sresp' = 0
    /\ sreq' = None
    /\ UNCHANGED <<store, cache, rpc, runi, rrec, rresp, upc, uid, uold, uuni, uresp,
                   lresp>>
    /\ UNCHANGED pipeVars
    /\ UNCHANGED histVars

\* the client has read the response of get_unis_live
UnisLiveReceive ==
    /\ lresp # NoResp
    /\ lresp' = NoResp
    /\ UNCHANGED <<store, cache, rpc, runi, rrec, rresp, upc, uid, uold, uuni, uresp,
                   sresp, sreq>>
    /\ UNCHANGED pipeVars
    /\ UNCHANGED histVars

\* the operator has read what the run of ai_processor printed
PipelineExit ==
    /\ ppc = "idle"
    /\ outcome # NoOutcome
    /\ outcome' = NoOutcome
    /\ calls' = 0
    /\ sleeps' = 0
    /\ lastCall' = NoCall
    /\ UNCHANGED <<store, cache, ppc, df, pidx, processed>>
    /\ UNCHANGED httpVars
    /\ UNCHANGED histVars

(* --------------------------- specifications ---------------------------- *)
Init ==
    /\ store = <<>>
    /\ cache = [u \in Unis |-> None]
    /\ rpc = [r \in Readers |-> "idle"]
    /\ runi = [r \in Readers |-> "Alpha U"]
    /\ rrec = [r \in Readers |-> None]
    /\ rresp = [r \in Readers |-> NoResp]
    /\ upc = "idle"
    /\ uid = 1
    /\ uold = None
    /\ uuni = Null
    /\ uresp = 0
    /\ sresp = 0
    /\ sreq = None
    /\ lresp = NoResp
    /\ ppc = "idle"
    /\ df = <<>>
    /\ pidx = 0
    /\ processed = <<>>
    /\ calls = 0
    /\ lastCall = NoCall
    /\ sleeps = 0
    /\ outcome = NoOutcome
    /\ rpre = [r \in Readers |-> "no"]
    /\ cpre = [u \in Unis |-> "no"]
    /\ jc = NoChange
    /\ rsrc = [r \in Readers |-> {}]
    /\ csrc = [u \in Unis |-> {}]

Next ==
    \/ SubmitReview
    \/ \E r \in Readers : ReadLookup(r)
    \/ \E r \in Readers : ReadQuery(r)
    \/ \E r \in Readers : ReadStore(r)
    \/ UpdCommit
    \/ UpdSelect
    \/ UpdInvalidate
    \/ GetUnisLive
    \/ PipelineStart
    \/ PipelineStep
    \/ PipelineReturn
    \/ InsertRecords
    \/ \E r \in Readers : ReadReceive(r)
    \/ UpdReceive
    \/ SubmitReceive
    \/ UnisLiveReceive
    \/ PipelineExit

Spec == Init /\ [][Next]_vars

\* the requests handled one at a time: a request starts only when no other
\* is in flight and every response has been read
NextSeq ==
    \/ HttpQuiet /\ SubmitReview
    \/ HttpQuiet /\ \E r \in Readers : ReadLookup(r)
    \/ \E r \in Readers : ReadQuery(r)
    \/ \E r \in Readers : ReadStore(r)
    \/ HttpQuiet /\ UpdCommit
    \/ UpdSelect
    \/ UpdInvalidate
    \/ GetUnisLive
    \/ PipelineStart
    \/ PipelineStep
    \/ PipelineReturn
    \/ InsertRecords
    \/ \E r \in Readers : ReadReceive(r)
    \/ UpdReceive
    \/ SubmitReceive
    \/ UnisLiveReceive
    \/ PipelineExit

SpecSeq == Init /\ [][NextSeq]_vars

(* ------------------------------- claims -------------------------------- *)
\* a response of get_university_details agrees with the table st: 200 carries
\* a record the aggregate query returns on st, 404 means it returns none
AnswersFrom(resp, st, u) ==
    /\ resp.code \in {200, 404, 500}
    /\ resp.code = 200 => resp.body # None /\ resp.body \subseteq QueryResults(st, u)
    /\ resp.code = 404 => QueryResults(st, u) = {}

\* C1: with the requests handled one at a time, the first read of E that
\* follows an update_review_status of a review of E that returned 200
\* answers from the table as it is after the change: it returns an aggregate
\* the query yields on the current rows (404 if it yields none), never an
\* entry cached before the change.
C1_NextReadIsFresh ==
    jc.phase = "read" => AnswersFrom(rresp[jc.reader], store, jc.uni)

\* C1 witness: a user-submitted review of E was approved, and the next read
\* of E returned an aggregate
C1_Witness ==
    /\ jc.phase = "read"
    /\ rresp[jc.reader].code = 200
    /\ \E i \in 1..Len(store) : /\ store[i].uni_name = jc.uni
                               /\ store[i].reviewer_type = "user_submitted"
                               /\ store[i].status = "approved"

\* the step is a committed insert_records batch that holds a record of u
BatchWrites(u) ==
    /\ ppc = "insert"
    /\ outcome'.kind = "committed"
    /\ \E k \in 1..Len(processed) : processed[k].uni_name = u

\* the step is a submit_review that inserted a row of u
SubmitWrites(u) ==
    /\ sresp = 0
    /\ sresp' = 201
    /\ store'[Len(store')].uni_name = u

\* C2: after a committed insert_records batch with a record of E, or a
\* submit_review that inserted a row of E, university_details_cache holds
\* no entry for E (any entry it holds then was computed before the write).
C2_WriteInvalidates ==
    [][\A u \in Unis : (BatchWrites(u) \/ SubmitWrites(u)) => cache'[u] = None]_vars

\* C3: once update_review_status and the reads of E that ran concurrently
\* with it have all finished and the update returned 200, the cache holds no
\* aggregate of E that was computed from the rows as they were before the
\* change.
C3_NoStaleEntryAfterRace ==
    (upc = "idle" /\ \A r \in Readers : rpc[r] = "idle")
        => \A u \in Unis : cache[u] # None => cpre[u] # "yes"

\* ids of the ai_processed rows of st with the natural key of rec
AiRowsWithKey(st, rec) ==
    {i \in 1..Len(st) : /\ st[i].uni_name = rec.uni_name
                        /\ st[i].raw_review_text = rec.raw_review_text
                        /\ st[i].reviewer_type = "ai_processed"}

\* the step is an insert_records call that committed
BatchCommits == ppc = "insert" /\ outcome'.kind = "committed"

\* C4: when an insert_records batch commits, the table holds exactly one
\* ai_processed row for the (entity_name, free_text) of each record of the
\* batch, and it has grown by the number of distinct keys of the batch that
\* had no row before: a key that has a row, or that occurs twice in the
\* batch, adds no row.
C4_UpsertKeyStable ==
    [][BatchCommits =>
        /\ \A k \in 1..Len(processed) :
              Cardinality(AiRowsWithKey(store', processed[k])) = 1
        /\ Len(store') = Len(store) + Cardinality(NewKeys(store, processed))]_vars

\* C4 witness: a batch over keys that all had a row committed: it updated
\* and inserted nothing
C4_Witness ==
    outcome.kind = "committed" /\ outcome.updated >= 1 /\ outcome.inserted = 0

\* C5: when insert_records ends with a failure at some record, the table is
\* exactly as it was before the batch started.
C5_BatchAllOrNothing ==
    [][(ppc = "insert" /\ outcome'.kind = "error") => store' = store]_vars

\* C5 witness: a batch failed after an earlier record of it had been
\* inserted or updated
C5_Witness ==
    outcome.kind = "error" /\ outcome.inserted + outcome.updated >= 1

ScoreFields ==
    {"academics_score", "cost_score", "social_score", "accommodation_score"}

\* C6: every persisted row has each of its four aspect scores in 1..5.
C6_ScoresInRange ==
    \A i \in 1..Len(store) : \A f \in ScoreFields : store[i][f] \in 1..5

\* C7: a scorer response that lacks a required field is skipped like a
\* scorer failure: no record of processed_records comes from such a response.
C7_PartialResultIsSkipped ==
    \A k \in 1..Len(processed) : processed[k].absent = {}

\* an empty or missing free_text
EmptyTexts == {NaN, Null, ""}

\* C8: the scorer is never called with an empty or missing free_text, and no
\* enriched record has one.
C8_NoScorerCallOnEmptyText ==
    /\ calls > 0 => lastCall.text \notin EmptyTexts
    /\ \A k \in 1..Len(processed) : processed[k].raw_review_text \notin EmptyTexts

\* C8 witness: the loop has passed a row without text and has called the
\* scorer for a later row
C8_Witness ==
    /\ ppc = "loop"
    /\ calls >= 1
    /\ \E i \in 1..Len(df) : i < pidx /\ df[i].raw_review_text = NaN

\* C9: process_data_pipeline makes no scorer call for a free_text that a
\* persisted row already holds.
C9_NoScorerCallForStoredText ==
    [][calls' = calls + 1 =>
        ~\E i \in 1..Len(store) : store[i].raw_review_text = lastCall'.text]_vars

\* C10: the row submit_review creates is user_submitted and pending, and
\* right after an insert_records batch commits the row of each of its
\* records is ai_processed and approved.
C10_StatusByProvenance ==
    [][/\ \A u \in Unis : SubmitWrites(u) =>
            /\ Len(store') = Len(store) + 1
            /\ store'[Len(store')].reviewer_type = "user_submitted"
            /\ store'[Len(store')].status = "pending"
       /\ BatchCommits =>
            \A k \in 1..Len(processed) :
                /\ AiRowsWithKey(store', processed[k]) # {}
                /\ \A i \in AiRowsWithKey(store', processed[k]) :
                      store'[i].status = "approved"]_vars

\* C10 witness: a batch that updated a row has committed while a
\* user-submitted row is pending
C10_Witness ==
    /\ outcome.kind = "committed"
    /\ outcome.updated >= 1
    /\ \E i \in 1..Len(store) : /\ store[i].reviewer_type = "user_submitted"
                               /\ store[i].status = "pending"

\* the ids of the rows the aggregate that request r returns in this step was
\* computed from: those of the cache entry on a hit, else those it fetched
ServedFrom(r) == IF rpc[r] = "idle" THEN csrc[runi'[r]] ELSE rsrc[r]

\* a row of the list get_unis_live returns counts and averages exactly the
\* approved rows of its university and city in the table st
LiveRowFrom(row, st) ==
    LET ids == {i \in 1..Len(st) : /\ st[i].uni_name = row.uni_name
                                   /\ st[i].city = row.city
                                   /\ st[i].status = "approved"}
    IN /\ ids # {}
       /\ row.review_count = Cardinality(ids)
       /\ row.avg_academics =
             Round2(SumOver(ids, [i \in ids |-> st[i].academics_score]),
                    Cardinality(ids))

\* C11: an aggregate that get_university_details returns, from the query or
\* from university_details_cache, was computed only from rows that are
\* approved when it is returned, and every row of the list that
\* get_unis_live returns is taken over rows approved at that time: a pending
\* or rejected review contributes to no returned aggregate.
C11_OnlyApprovedRows ==
    [][/\ \A r \in Readers :
            (rresp[r] = NoResp /\ rresp'[r].code = 200)
                => ServedFrom(r) \subseteq ApprovedIds(store, runi'[r])
       /\ (lresp = NoResp /\ lresp'.code = 200)
            => \A row \in lresp'.body : LiveRowFrom(row, store)]_vars

\* C12: handling one review never ends the run of process_data_pipeline:
\* whatever happens to the row the loop is at (skipped, scorer failure,
\* malformed record), the loop moves on to the next row, so every other
\* review of the batch is still processed.
C12_FailureSkipsOneReview ==
    [][(ppc = "loop" /\ pidx <= Len(df)) => (ppc' = "loop" /\ pidx' = pidx + 1)]_vars

\* C13: insert_records reports the outcome to its caller: when the batch has
\* committed, the value it returned holds the inserted and updated counts
\* (a failed batch, which returns no counts, is thereby told apart).
C13_OutcomeReported ==
    outcome.kind = "committed"
        => outcome.returned = {[inserted |-> outcome.inserted,
                                updated |-> outcome.updated]}

\* entity_name, free_text and the four aspect scores
RequiredOfSubmission ==
    {"uni_name", "raw_review_text", "academics_score", "cost_score",
     "social_score", "accommodation_score"}

\* C14: a submit_review request that lacks entity_name, free_text or one of
\* the four scores is answered 400, whether or not the database can be
\* reached, and leaves the table and university_details_cache unchanged.
C14_IncompleteSubmissionRejected ==
    [][(sresp = 0 /\ sresp' # 0 /\
        \E d \in sreq' : d.absent \cap RequiredOfSubmission # {})
            => (sresp' = 400 /\ store' = store /\ cache' = cache)]_vars

\* C14 witness: a request with every field but accommodation_score was
\* answered 400 while the table holds a row and the cache an entry
C14_Witness ==
    /\ sresp = 400
    /\ \E d \in sreq : /\ "accommodation_score" \in d.absent
                        /\ "uni_name" \notin d.absent
    /\ Len(store) >= 1
    /\ \E u \in Unis : cache[u] # None

\* C15: in a run of process_data_pipeline every scorer call but the first
\* comes after a pacing sleep that followed the call before it: when a call
\* is made, each earlier call of the run has been followed by time.sleep(13).
C15_PacedBetweenCalls ==
    [][(calls' = calls + 1 /\ calls >= 1) => sleeps = calls]_vars

\* record k is the last of processed_records with its (entity_name, free_text)
LastOfKey(k) ==
    ~\E j \in (k + 1)..Len(processed) :
        /\ processed[j].uni_name = processed[k].uni_name
        /\ processed[j].raw_review_text = processed[k].raw_review_text

\* the stored row carries the record's scores, summary, region, source_kind,
\* detected language and approved status
CarriesDerivedFields(row, rec) ==
    /\ \A f \in ScoreFields : row[f] = rec[f]
    /\ row.theme_summary = rec.theme_summary
    /\ row.city = rec.city
    /\ row.source_type = rec.source_type
    /\ row.raw_language = (IF rec.raw_review_text \in ArabicTexts THEN "ar" ELSE "en")
    /\ row.status = "approved"

\* C16: when an insert_records batch commits, the row stored under the
\* natural key of each record (the last record, where a key occurs twice)
\* carries that record's four scores, sentiment label, summary, region,
\* source_kind, detected language and approved status, whether the row was
\* inserted or updated.
C16_StoredFieldsFollowRecord ==
    [][BatchCommits =>
        \A k \in 1..Len(processed) : LastOfKey(k) =>
            \A i \in AiRowsWithKey(store', processed[k]) :
                /\ CarriesDerivedFields(store'[i], processed[k])
                /\ store'[i].overall_sentiment = processed[k].overall_sentiment]_vars

\* row i of the table has the natural key of some record of the batch
KeyInBatch(i) == \E k \in 1..Len(processed) : i \in AiRowsWithKey(store, processed[k])

\* C17: when an insert_records batch commits, every row that was in the
\* table keeps its id, created_at, entity_name, free_text and reviewer_type,
\* and a row whose natural key is that of no record of the batch is left
\* exactly as it was.
C17_UpdateKeepsIdentity ==
    [][BatchCommits =>
        /\ Len(store') >= Len(store)
        /\ \A i \in 1..Len(store) :
              /\ store'[i].created_at = store[i].created_at
              /\ store'[i].uni_name = store[i].uni_name
              /\ store'[i].raw_review_text = store[i].raw_review_text
              /\ store'[i].reviewer_type = store[i].reviewer_type
              /\ ~KeyInBatch(i) => store'[i] = store[i]]_vars

\* C17 witness: a batch that updated a row has committed while the table
\* also holds a user-submitted row of the same university
C17_Witness ==
    /\ outcome.kind = "committed"
    /\ outcome.updated >= 1
    /\ \E i, j \in 1..Len(store) : /\ store[i].reviewer_type = "ai_processed"
                                  /\ store[j].reviewer_type = "user_submitted"
                                  /\ store[i].uni_name = store[j].uni_name

\* C18: a record that process_data_pipeline builds from a CSV row (a row
\* that the HTML adapter did not tag html_scrape) has source_kind
\* csv_survey, also when HTML cards are part of the same run.
C18_CsvRecordsAreSurvey ==
    [][(ppc = "loop" /\ Len(processed') = Len(processed) + 1
            /\ df[pidx].source_type # "html_scrape")
        => processed'[Len(processed')].source_type = "csv_survey"]_vars

\* C19: the aggregate that get_university_details fetches for E (and then
\* caches and returns) is computed from every approved row of E, whatever
\* the region values of those rows.
C19_AggregateOverAllApproved ==
    [][\A r \in Readers :
          (rpc[r] = "miss" /\ rpc'[r] = "fetched")
              => rsrc'[r] = {i \in 1..Len(store) : /\ store[i].uni_name = runi[r]
                                                  /\ store[i].status = "approved"}]_vars

\* C20: when an insert_records batch commits and holds a record with the
\* (entity_name, free_text) of an ai_processed row that is rejected, that
\* row is approved afterwards, and so is among the rows the aggregate
\* queries read, with no update_review_status in between.
C20_RerunReapproves ==
    [][BatchCommits =>
        \A k \in 1..Len(processed) :
            \A i \in AiRowsWithKey(store, processed[k]) :
                store[i].status = "rejected"
                    => i \in ApprovedIds(store', processed[k].uni_name)]_vars

\* C20 witness: a committed batch has approved again an ai_processed row
\* that was rejected
C20_Witness ==
    /\ outcome.kind = "committed"
    /\ \E i \in outcome.revived : /\ store[i].reviewer_type = "ai_processed"
                                  /\ store[i].status = "approved"

\* C21: when update_review_status answers with an error (401, 400, 404 or
\* 500), the review's stored status is the one it had before the request and
\* university_details_cache is as it was.
C21_ErrorLeavesStateUnchanged ==
    [][(uresp = 0 /\ uresp' \notin {0, 200})
        => /\ cache' = cache
           /\ IF upc = "idle" THEN store' = store
              ELSE \A s \in uold : store'[uid].status = s]_vars

====
